---- MODULE Spec2Model ----
(***************************************************************************)
(* ASPM tuning (update_aspm.py): the capability walk that locates the PCI  *)
(* Express Link Control register through setpci, the computation of the    *)
(* desired register value, the write/verify protocol of enable_aspm_byte   *)
(* and the batch loop of main with its counters.                           *)
(*                                                                         *)
(* Text exchanged with the tools is modelled as what it is: a sequence of  *)
(* one-character strings.  setpci prints a byte as two lowercase hex       *)
(* digits; Python's f"{n:X}" prints uppercase digits without padding;      *)
(* int(s, 16) accepts both.  A configuration space is a function from the  *)
(* offsets that hold a non-zero byte to that byte; every other offset      *)
(* reads 0.                                                                *)
(***************************************************************************)
EXTENDS Integers, Sequences, FiniteSets, TLC

VARIABLES
    ASPM_SETTING,           \* the module-level policy value (update_aspm.py:76)
    space,                  \* hardware: device -> configuration space
    lspci,                  \* the devices lspci lists at this moment
    dead,                   \* devices whose every setpci access fails
    devices,                \* main: the enumerated device list
    idx,                    \* main: position of the for loop in devices
    pc,                     \* position of the program
    run,                    \* number of the invocation of main (1, 2, ..)
    status,                 \* main: what check_aspm_status returned
    aspm_byte_address,      \* enable_aspm_byte: local
    aspm_byte_hex,          \* enable_aspm_byte: local
    desired_aspm_byte_hex,  \* enable_aspm_byte: local
    devices_with_aspm,      \* main: counter
    devices_already_set,    \* main: counter
    devices_updated,        \* main: counter
    devices_failed,         \* main: counter
    devices_no_aspm,        \* main: counter
    outcome,                \* device -> how main counted it in this run
    error_msg,              \* device -> the error enable_aspm_byte returned
    writes,                 \* device -> setpci write commands issued in this run
    stored,                 \* device -> the last write command was stored as sent
    prev_outcome,           \* device -> outcome in the previous run
    verified,               \* device -> the texts enable_aspm_byte compared at line 273
    space0,                 \* device -> configuration space when the run started
    events,                 \* environment events so far (faults, removals, drifts)
    touched,                \* devices an environment event hit in this run
    drifted,                \* devices whose register the environment changed
    accessed,               \* devices a setpci command was issued to in this run
    failed,                 \* device -> the kind of its first command that failed
    after_fail,             \* device -> commands issued to it after that failure
    trail,                  \* the devices commands were issued to, in order
    lspace,                 \* locator harness: the configuration space walked
    lplan,                  \* locator harness: the accessor's fault plan
    lres                    \* locator harness: result of find_aspm_byte_address

vars == <<ASPM_SETTING, space, lspci, dead, devices, idx, pc, run, status,
          aspm_byte_address, aspm_byte_hex, desired_aspm_byte_hex,
          devices_with_aspm, devices_already_set, devices_updated,
          devices_failed, devices_no_aspm, outcome, error_msg, writes, stored,
          prev_outcome, verified, space0, events, touched, drifted,
          accessed, failed, after_fail, trail, lspace, lplan, lres>>

batchVars == <<ASPM_SETTING, space, lspci, dead, devices, idx, pc, run, status,
               aspm_byte_address, aspm_byte_hex, desired_aspm_byte_hex,
               devices_with_aspm, devices_already_set, devices_updated,
               devices_failed, devices_no_aspm, outcome, error_msg, writes,
               stored, prev_outcome, verified, space0, events, touched,
               drifted, accessed, failed, after_fail, trail>>

locVars == <<lspace, lplan, lres>>

----------------------------------------------------------------------------
(* Bounds of the model.                                                    *)

MaxDevices == 3     \* devices lspci lists at most
MaxEvents == 1      \* environment events (fault, removal, drift) per behaviour
MaxRuns == 2        \* invocations of main in one behaviour
MaxFaultAt == 3     \* the fault plan of a walk fails one of its first accesses

----------------------------------------------------------------------------
(* Program constants.                                                      *)

MAX_SEARCH == 100
CapPtrReg == 52          \* 0x34, the capabilities pointer
PcieCapId == 16          \* 0x10, the value the walk looks for
LinkCtlDelta == 16       \* 0x10, added to the node offset
WriteMask == 3           \* the ":3" of the setpci write
Policies == 0 .. 3

----------------------------------------------------------------------------
(* Text: hexadecimal strings as the tools and Python produce them.         *)

HexLower == <<"0","1","2","3","4","5","6","7","8","9","a","b","c","d","e","f">>
HexUpper == <<"0","1","2","3","4","5","6","7","8","9","A","B","C","D","E","F">>

\* the value of each hexadecimal digit
HexValue ==
    [c \in {HexLower[i] : i \in 1..16} \cup {HexUpper[i] : i \in 1..16} |->
        (CHOOSE i \in 1..16 : HexLower[i] = c \/ HexUpper[i] = c) - 1]

\* str.upper() on one character
UpperChar(c) == IF c \in DOMAIN HexValue THEN HexUpper[HexValue[c] + 1] ELSE c

\* str.upper()
Upper(s) == [i \in DOMAIN s |-> UpperChar(s[i])]

DigitValue(c) == HexValue[c]

IsHexChar(c) == c \in DOMAIN HexValue

\* int(s, 16) raises ValueError unless s is a non-empty string of hex digits
IsHex(s) == Len(s) > 0 /\ \A i \in DOMAIN s : IsHexChar(s[i])

RECURSIVE ParseHexFrom(_, _)
ParseHexFrom(s, acc) ==
    IF s = <<>> THEN acc
    ELSE ParseHexFrom(Tail(s), acc * 16 + DigitValue(Head(s)))

\* int(s, 16)
ParseHex(s) == ParseHexFrom(s, 0)

RECURSIVE FormatX(_)
\* f"{n:X}": uppercase, no padding
FormatX(n) ==
    IF n < 16 THEN <<HexUpper[n + 1]>>
    ELSE Append(FormatX(n \div 16), HexUpper[(n % 16) + 1])

\* what setpci prints for a byte register: printf("%02x")
ToolByte(b) == <<HexLower[(b \div 16) + 1], HexLower[(b % 16) + 1]>>

Str10 == <<"1", "0">>
Str34 == <<"3", "4">>
None == <<"None">>
NoText == <<>>

----------------------------------------------------------------------------
(* Integer bit operations, as Python computes them on non-negative ints.   *)

RECURSIVE BitAnd(_, _)
BitAnd(a, b) ==
    IF a = 0 \/ b = 0 THEN 0
    ELSE (a % 2) * (b % 2) + 2 * BitAnd(a \div 2, b \div 2)

RECURSIVE BitOr(_, _)
BitOr(a, b) ==
    IF a = 0 THEN b
    ELSE IF b = 0 THEN a
    ELSE (IF a % 2 = 1 \/ b % 2 = 1 THEN 1 ELSE 0) + 2 * BitOr(a \div 2, b \div 2)

\* v & ~0x7 on a non-negative int: ~0x7 is -8, every bit set but the low three
AndNot7(v) == v - (v % 8)

DesiredValMutantMask3(current_val, setting) == BitOr(current_val - (current_val % 4), setting)

\* desired_val = (current_val & ~0x7) | ASPM_SETTING
DesiredVal(current_val, setting) == BitOr(AndNot7(current_val), setting)

MaskedWriteMutantWhole(old, value, mask) == value

\* setpci reg.b=value:mask stores (old & ~mask) | (value & mask)
MaskedWrite(old, value, mask) ==
    BitOr(old - BitAnd(old, mask), BitAnd(value, mask))

----------------------------------------------------------------------------
(* The configuration-space accessor: run_command(["setpci", ...]).         *)

ConfigByte(cs, off) == IF off \in DOMAIN cs THEN cs[off] ELSE 0

NoFault == [at |-> 0, kind |-> "none"]
AllFail == [at |-> 0, kind |-> "dead"]

\* what the n-th access of an invocation does under a fault plan
AccessOutcome(plan, n) ==
    IF plan.kind = "dead" THEN "fail"
    ELSE IF plan.kind \in {"fail", "malformed"} /\ plan.at = n THEN plan.kind
    ELSE "ok"

\* whether the lspci call of the invocation succeeds under a fault plan
LspciOk(plan) == plan.kind /= "lspci"

\* the fault of the plan was met by an invocation that issued `reads` accesses
Happened(plan, reads) ==
    \/ plan.kind \in {"none", "dead", "lspci"}
    \/ plan.at <= reads

\* setpci -s dev <reg>.b : (returncode, stdout.strip())
SetpciRead(cs, reg, o) ==
    IF o = "fail" \/ ~IsHex(reg) THEN [rc |-> 1, out |-> NoText]
    ELSE IF o = "malformed" THEN [rc |-> 0, out |-> NoText]
    ELSE [rc |-> 0, out |-> ToolByte(ConfigByte(cs, ParseHex(reg)))]

----------------------------------------------------------------------------
(* device_present and find_aspm_byte_address.                              *)

\* device_present: lspci must succeed and list the device
device_present(listed, device, lspci_ok) == lspci_ok /\ device \in listed

Walked(ret, reads, long) == [ret |-> ret, reads |-> reads, long |-> long]

\* the locals of the while loop; n counts the setpci commands issued so far,
\* done says the function has returned, with the result in ret and long
Looping(search, search_count, n) ==
    [search |-> search, search_count |-> search_count, n |-> n,
     done |-> FALSE, ret |-> None, long |-> FALSE]

Returned(ret, n, long) ==
    [search |-> NoText, search_count |-> 0, n |-> n,
     done |-> TRUE, ret |-> ret, long |-> long]

WhileCondMutantUnbounded(search, search_count) == search /= Str10

\* line 141: while search != "10" and search_count <= MAX_SEARCH
WhileCond(search, search_count) == search /= Str10 /\ search_count <= MAX_SEARCH

\* lines 147-153: the register address for the node at `search`, as text
AspmAddr(search) == FormatX(ParseHex(Upper(search)) + LinkCtlDelta)

\* lines 156-158: the text of the address of the next pointer
NextAddr(search) == FormatX(ParseHex(Upper(search)) + 1)

\* lines 141-168: the test of the while loop and, when it holds, one pass
\* through its body; when it fails, what follows the loop
LoopStep(cs, plan, st) ==
    IF st.done THEN st
    ELSE IF ~WhileCond(st.search, st.search_count)
    THEN Returned(None, st.n, st.search_count >= MAX_SEARCH)
    ELSE LET end_search == SetpciRead(cs, st.search, AccessOutcome(plan, st.n + 1))
         IN  IF end_search.rc /= 0 THEN Returned(None, st.n + 1, FALSE)
             ELSE IF end_search.out = Str10
             THEN Returned(AspmAddr(st.search), st.n + 1, FALSE)
             ELSE LET next == SetpciRead(cs, NextAddr(st.search),
                                         AccessOutcome(plan, st.n + 2))
                  IN  IF next.rc /= 0 THEN Returned(None, st.n + 2, FALSE)
                      ELSE Looping(next.out, st.search_count + 1, st.n + 2)

RECURSIVE Iterate(_, _, _, _)
\* k times LoopStep, by halving
Iterate(cs, plan, st, k) ==
    IF st.done \/ k = 0 THEN st
    ELSE IF k = 1 THEN LoopStep(cs, plan, st)
    ELSE LET mid == Iterate(cs, plan, st, k \div 2)
         IN  Iterate(cs, plan, mid, k - (k \div 2))

\* the while loop to its end: the test holds at most MAX_SEARCH times
SearchLoop(cs, plan, search, search_count, n) ==
    LET st == Iterate(cs, plan, Looping(search, search_count, n), MAX_SEARCH + 1)
    IN  Walked(st.ret, st.n, st.long)

\* find_aspm_byte_address(device): ret is None or the register address as text
find_aspm_byte_address(cs, present, plan) ==
    IF ~present THEN Walked(None, 0, FALSE)
    ELSE LET first == SetpciRead(cs, Str34, AccessOutcome(plan, 1))
         IN  IF first.rc /= 0 THEN Walked(None, 1, FALSE)
             ELSE SearchLoop(cs, plan, first.out, 1, 1)

----------------------------------------------------------------------------
(* Configuration spaces the model draws from.                              *)

\* a function with the zero bytes removed
Sparse(f) == [o \in {x \in DOMAIN f : f[x] /= 0} |-> f[o]]

\* 0x36: first node of a synthetic chain, nodes 2 bytes apart
ChainBase == CapPtrReg + 2
ChainLens == {1, 2, 3, 48, 99, 100, 101}

\* n nodes at ChainBase, ChainBase+2, ..; node k (1..n) has the PCI Express
\* ID, k = 0 for none; the other nodes have ID 0x01; the last next pointer is 0
ChainSpace(n, k) ==
    Sparse([o \in {CapPtrReg} \cup (ChainBase .. ChainBase + 2 * n - 1) |->
        IF o = CapPtrReg THEN ChainBase
        ELSE IF (o - ChainBase) % 2 = 0
             THEN (IF (o - ChainBase) \div 2 + 1 = k THEN PcieCapId ELSE 1)
             ELSE (IF o = ChainBase + 2 * n - 1 THEN 0 ELSE o + 1)])

ChainSpaces ==
    {ChainSpace(n, k) : n \in ChainLens, k \in {0, 1, 2, 3, 48, 99, 100, 101}}

\* small spaces with every combination of the bytes the walk can meet:
\* vendor ID bytes at 0 and 1, a byte at 0x10, the head pointer, two nodes
SmallSpaces ==
    {Sparse([o \in {0, 1, 16, CapPtrReg, 64, 65, 80, 81} |->
        CASE o = 0 -> b0 [] o = 1 -> b1 [] o = 16 -> b16 [] o = CapPtrReg -> head
          [] o = 64 -> id1 [] o = 65 -> nx1 [] o = 80 -> id2 [] o = 81 -> 0]) :
     b0 \in {16, 134}, b1 \in {0, 16, 64}, b16 \in {0, 16},
     head \in {0, 16, 64}, id1 \in {1, 16}, nx1 \in {0, 16, 64, 80},
     id2 \in {5, 16}}

LocatorSpaces == ChainSpaces \cup SmallSpaces

FaultPlans ==
    {NoFault} \cup {[at |-> i, kind |-> k] : i \in 1 .. MaxFaultAt, k \in {"fail", "malformed"}}

----------------------------------------------------------------------------
(* The locator on its own: one configuration space, one invocation.        *)

Pending == [ret |-> None, reads |-> 0 - 1, long |-> FALSE]

Locate ==
    /\ lres = Pending
    /\ lres' = find_aspm_byte_address(lspace, TRUE, lplan)
    /\ UNCHANGED <<lspace, lplan>>
    /\ UNCHANGED batchVars

----------------------------------------------------------------------------
(* check_aspm_status.                                                      *)

\* found is the answer find_aspm_byte_address gave inside the call
Checked(kind, found, addr, cur, des, reads) ==
    [kind |-> kind, found |-> found, addr |-> addr, current_val |-> cur,
     desired_val |-> des, reads |-> reads]

\* what main keeps of the answer (and found, for the record)
Kept(st) ==
    [kind |-> st.kind, found |-> st.found, addr |-> st.addr,
     current_val |-> st.current_val, desired_val |-> st.desired_val]

NoStatus == Kept(Checked("None", None, None, 0, 0, 0))

\* check_aspm_status(device): None, (address, current, desired), or the
\* ValueError int() raises on text that is no hexadecimal number
check_aspm_status(cs, present, plan, setting) ==
    LET f == find_aspm_byte_address(cs, present, plan)
    IN  IF f.ret = None THEN Checked("None", None, None, 0, 0, f.reads)
        ELSE LET r == SetpciRead(cs, f.ret, AccessOutcome(plan, f.reads + 1))
                 hex == Upper(r.out)
             IN  IF r.rc /= 0 THEN Checked("None", f.ret, None, 0, 0, f.reads + 1)
                 ELSE IF ~IsHex(hex)
                 THEN Checked("ValueError", f.ret, f.ret, 0, 0, f.reads + 1)
                 ELSE Checked("Status", f.ret, f.ret, ParseHex(hex),
                              DesiredVal(ParseHex(hex), setting), f.reads + 1)

----------------------------------------------------------------------------
(* The batch: main, enable_aspm_byte and the environment.                  *)

Dev == 1 .. MaxDevices

\* vendor ID 0x10EC, one PCI Express capability at 0x40, its Link Control
\* low byte at 0x50
PcieSpace(reg) ==
    Sparse([o \in {0, 1, CapPtrReg, 64, 80} |->
        CASE o = 0 -> 236 [] o = 1 -> 16 [] o = CapPtrReg -> 64
          [] o = 64 -> PcieCapId [] o = 80 -> reg])

\* no capability list: head pointer 0, vendor ID 0x10EC
NoCapSpace == Sparse([o \in {0, 1} |-> IF o = 0 THEN 236 ELSE 16])

BatchRegs == {64, 67}
BatchSpaces == {PcieSpace(r) : r \in BatchRegs} \cup {NoCapSpace}
BatchPolicies == {3}
DriftVals == {64, 67}

OneSpaces ==
    {PcieSpace(r) : r \in 0 .. 255}
        \cup {NoCapSpace, ChainSpace(101, 0), ChainSpace(100, 100), ChainSpace(2, 2)}

Terminal == {"summary", "exit1", "crash"}
InEnable == {"en_present", "en_find", "en_read", "en_present2", "en_write", "en_verify"}

NotVerified == [desired |-> None, actual |-> None]

\* line 246: if aspm_byte_hex == desired_aspm_byte_hex (two texts)
AlreadySet(hex, desired_hex) == hex = desired_hex

VerifyOkMutantSkipped(actual_hex, desired_hex) == TRUE

\* line 273: not (actual_aspm_byte_hex != desired_aspm_byte_hex) (two texts)
VerifyOk(actual_hex, desired_hex) == actual_hex = desired_hex

NoError == [kind |-> "", expected |-> NoText, actual |-> NoText]
Error(kind) == [kind |-> kind, expected |-> NoText, actual |-> NoText]

\* the elements of a set of numbers in increasing order
RECURSIVE Ordered(_)
Ordered(S) ==
    IF S = {} THEN <<>>
    ELSE LET m == CHOOSE x \in S : \A y \in S : x <= y
         IN  <<m>> \o Ordered(S \ {m})

CurMutantFirst == devices[1]

\* main, line 327: for device in devices
Cur == devices[idx]

\* the environment acts during the first run only: the later runs are the
\* re-invocation against an unchanged device population
Budget == events < MaxEvents /\ run = 1

\* fault plans an invocation on device d may meet
PlansFor(d) ==
    IF d \in dead THEN {AllFail}
    ELSE {NoFault} \cup
         (IF Budget
          THEN FaultPlans \cup {[at |-> 0, kind |-> "lspci"]}
          ELSE {})

\* outcomes one setpci command on device d may have
OutcomesFor(d, kinds) ==
    IF d \in dead THEN {"fail"}
    ELSE {"ok"} \cup (IF Budget THEN kinds ELSE {})

\* outcomes one lspci command may have
LspciOutcomes == {TRUE} \cup (IF Budget THEN {FALSE} ELSE {})

Hit(d, faulty) ==
    /\ events' = events + (IF faulty THEN 1 ELSE 0)
    /\ touched' = IF faulty THEN touched \cup {d} ELSE touched

\* the position, among the `reads` commands an invocation issued, of the
\* first one the fault plan made return a non-zero code (0: none did)
FailAt(plan, reads) ==
    IF reads = 0 THEN 0
    ELSE IF plan.kind = "dead" THEN 1
    ELSE IF plan.kind = "fail" /\ plan.at <= reads THEN plan.at
    ELSE 0

\* run_command: n setpci commands were issued to device d (trail keeps the
\* devices in the order of the commands, a device once per stretch); the fail_at-th
\* of them (0: none) failed: it returned a non-zero code, or it was the
\* readback and differed from the desired text; cmd is the kind of failure
Issued(d, n, fail_at, cmd) ==
    /\ accessed' = IF n > 0 THEN accessed \cup {d} ELSE accessed
    /\ after_fail' = [after_fail EXCEPT ![d] =
           IF failed[d] /= "none" THEN @ + n
           ELSE IF fail_at > 0 THEN n - fail_at
           ELSE @]
    /\ failed' = [failed EXCEPT ![d] =
           IF @ = "none" /\ fail_at > 0 THEN cmd ELSE @]
    /\ trail' = IF n > 0 /\ (trail = <<>> \/ trail[Len(trail)] /= d)
                THEN Append(trail, d)
                ELSE trail

ReadOnlyMutantWrites ==
    /\ writes' = [writes EXCEPT ![devices[idx]] = @ + 1]
    /\ UNCHANGED <<space, stored>>

\* find_aspm_byte_address and check_aspm_status issue read commands only
\* ("<reg>.b" without "="): no register changes and no write is issued
ReadOnly == UNCHANGED <<space, writes, stored>>

NoDevicesMutantNever(found) == FALSE

\* line 313: if not devices
NoDevices(found) == found = <<>>

AlreadyConfiguredMutantNever(current_val, desired_val) == FALSE

\* line 342: if current_val == desired_val (two ints)
AlreadyConfigured(current_val, desired_val) == current_val = desired_val

WriteFailedMutantIgnored(returncode) == FALSE

\* line 254: if returncode != 0
WriteFailed(returncode) == returncode /= 0

WriteTargetMutantFirst == devices[1]

\* line 253: setpci -s device, the device enable_aspm_byte was called with
WriteTarget == Cur

\* main, lines 331-367: count the device and go on with the next one
Counted(d, out, msg, with) ==
    /\ outcome' = [outcome EXCEPT ![d] = out]
    /\ error_msg' = [error_msg EXCEPT ![d] = msg]
    /\ devices_with_aspm' = devices_with_aspm + with
    /\ devices_no_aspm' = devices_no_aspm + (IF out = "NoCapability" THEN 1 ELSE 0)
    /\ devices_already_set' = devices_already_set + (IF out = "AlreadyCorrect" THEN 1 ELSE 0)
    /\ devices_updated' = devices_updated + (IF out = "Updated" THEN 1 ELSE 0)
    /\ devices_failed' = devices_failed + (IF out = "Failed" THEN 1 ELSE 0)
    /\ idx' = idx + 1
    /\ pc' = IF idx + 1 > Len(devices) THEN "summary" ELSE "check"

ReturnMutantNoAspm(success, msg) ==
    Counted(Cur, IF success THEN "Updated" ELSE "NoCapability", msg, 0)

\* enable_aspm_byte returns (success, error_msg) to main, lines 356-367
Return(success, msg) ==
    Counted(Cur, IF success THEN "Updated" ELSE "Failed", msg, 0)

\* the program moves to pc' = p and counts nothing
Goto(p) ==
    /\ pc' = p
    /\ UNCHANGED <<idx, outcome, error_msg, devices_with_aspm, devices_no_aspm,
                   devices_already_set, devices_updated, devices_failed>>

\* main, lines 311-317: get_all_pci_devices and the empty-list exit
Enumerate ==
    /\ pc = "start"
    /\ \E ok \in LspciOutcomes :
         LET found == IF ok THEN Ordered(lspci) ELSE <<>>
         IN  /\ devices' = found
             /\ pc' = IF NoDevices(found) THEN "exit1" ELSE "check"
             /\ events' = events + (IF ok THEN 0 ELSE 1)
    /\ idx' = 1
    /\ space0' = space
    /\ UNCHANGED <<ASPM_SETTING, space, lspci, dead, run, status, aspm_byte_address,
                   aspm_byte_hex, desired_aspm_byte_hex, devices_with_aspm,
                   devices_already_set, devices_updated, devices_failed,
                   devices_no_aspm, outcome, error_msg, writes, stored,
                   prev_outcome, verified, touched>>
    /\ UNCHANGED <<drifted, accessed, failed, after_fail, trail>>
    /\ UNCHANGED locVars

\* main, lines 327-353: check_aspm_status for the next device and what main
\* does with the answer, up to the call of enable_aspm_byte
CheckDevice ==
    /\ pc = "check"
    /\ \E plan \in PlansFor(Cur) :
         LET st == check_aspm_status(space[Cur],
                                     device_present(lspci, Cur, LspciOk(plan)),
                                     plan, ASPM_SETTING)
         IN  /\ Happened(plan, st.reads)
             /\ Hit(Cur, plan.kind \in {"fail", "malformed", "lspci"})
             /\ Issued(Cur, st.reads, FailAt(plan, st.reads), "read")
             /\ status' = Kept(st)
             /\ CASE st.kind = "ValueError" -> Goto("crash")
                  [] st.kind = "None" -> Counted(Cur, "NoCapability", NoError, 0)
                  [] st.kind = "Status"
                        /\ AlreadyConfigured(st.current_val, st.desired_val) ->
                         Counted(Cur, "AlreadyCorrect", NoError, 1)
                  [] OTHER ->
                         /\ pc' = "en_present"
                         /\ devices_with_aspm' = devices_with_aspm + 1
                         /\ UNCHANGED <<idx, outcome, error_msg, devices_no_aspm,
                                        devices_already_set, devices_updated,
                                        devices_failed>>
    /\ ReadOnly
    /\ UNCHANGED <<ASPM_SETTING, lspci, dead, devices, run, aspm_byte_address,
                   aspm_byte_hex, desired_aspm_byte_hex, prev_outcome, verified,
                   space0>>
    /\ UNCHANGED drifted
    /\ UNCHANGED locVars

\* enable_aspm_byte, lines 213-214
EnablePresent ==
    /\ pc = "en_present"
    /\ \E ok \in LspciOutcomes :
         /\ Hit(Cur, ~ok)
         /\ IF device_present(lspci, Cur, ok)
            THEN Goto("en_find")
            ELSE Return(FALSE, Error("not found"))
    /\ UNCHANGED <<ASPM_SETTING, space, lspci, dead, devices, run, status,
                   aspm_byte_address, aspm_byte_hex, desired_aspm_byte_hex,
                   writes, stored, prev_outcome, verified, space0>>
    /\ UNCHANGED <<drifted, accessed, failed, after_fail, trail>>
    /\ UNCHANGED locVars

\* enable_aspm_byte, lines 216-218
EnableFind ==
    /\ pc = "en_find"
    /\ \E plan \in PlansFor(Cur) :
         LET f == find_aspm_byte_address(space[Cur],
                                         device_present(lspci, Cur, LspciOk(plan)),
                                         plan)
         IN  /\ Happened(plan, f.reads)
             /\ Hit(Cur, plan.kind \in {"fail", "malformed", "lspci"})
             /\ Issued(Cur, f.reads, FailAt(plan, f.reads), "read")
             /\ aspm_byte_address' = f.ret
             /\ IF f.ret = None
                THEN Return(FALSE, Error("no ASPM byte"))
                ELSE Goto("en_read")
    /\ ReadOnly
    /\ UNCHANGED <<ASPM_SETTING, lspci, dead, devices, run, status,
                   aspm_byte_hex, desired_aspm_byte_hex, prev_outcome, verified,
                   space0>>
    /\ UNCHANGED drifted
    /\ UNCHANGED locVars

\* enable_aspm_byte, lines 221-240: read the register, compute the desired
\* value and its text (line 230 never holds: the address is never "INVALID")
EnableRead ==
    /\ pc = "en_read"
    /\ \E o \in OutcomesFor(Cur, {"fail", "malformed"}) :
         LET r == SetpciRead(space[Cur], aspm_byte_address, o)
             hex == Upper(r.out)
         IN  /\ Hit(Cur, o /= "ok" /\ Cur \notin dead)
             /\ Issued(Cur, 1, IF r.rc /= 0 THEN 1 ELSE 0, "read")
             /\ IF r.rc /= 0
                THEN /\ Return(FALSE, Error("get failed"))
                     /\ UNCHANGED <<aspm_byte_hex, desired_aspm_byte_hex>>
                ELSE IF ~IsHex(hex)
                THEN /\ Goto("crash")
                     /\ UNCHANGED <<aspm_byte_hex, desired_aspm_byte_hex>>
                ELSE /\ Goto("en_present2")
                     /\ aspm_byte_hex' = hex
                     /\ desired_aspm_byte_hex' =
                            FormatX(DesiredVal(ParseHex(hex), ASPM_SETTING))
    /\ UNCHANGED <<ASPM_SETTING, space, lspci, dead, devices, run, status,
                   aspm_byte_address, writes, stored, prev_outcome, verified, space0>>
    /\ UNCHANGED drifted
    /\ UNCHANGED locVars

\* enable_aspm_byte, lines 242-250: sys.exit(1) when the device is gone, and
\* the comparison of the two texts that skips the write
EnablePresent2 ==
    /\ pc = "en_present2"
    /\ \E ok \in LspciOutcomes :
         /\ Hit(Cur, ~ok)
         /\ IF ~device_present(lspci, Cur, ok)
            THEN Goto("exit1")
            ELSE IF AlreadySet(aspm_byte_hex, desired_aspm_byte_hex)
            THEN Return(TRUE, NoError)
            ELSE Goto("en_write")
    /\ UNCHANGED <<ASPM_SETTING, space, lspci, dead, devices, run, status,
                   aspm_byte_address, aspm_byte_hex, desired_aspm_byte_hex,
                   writes, stored, prev_outcome, verified, space0>>
    /\ UNCHANGED <<drifted, accessed, failed, after_fail, trail>>
    /\ UNCHANGED locVars

\* enable_aspm_byte, lines 253-257: setpci <address>.b=<ASPM_SETTING>:3.  The
\* device stores the masked value or keeps what it had.
EnableWrite ==
    /\ pc = "en_write"
    /\ \E o \in OutcomesFor(Cur, {"fail"}), kept \in BOOLEAN :
         LET reg == ParseHex(aspm_byte_address)
             old == ConfigByte(space[WriteTarget], reg)
             new == IF kept THEN MaskedWrite(old, ASPM_SETTING, WriteMask) ELSE old
             returncode == IF o = "ok" THEN 0 ELSE 1
         IN  /\ Hit(Cur, o /= "ok" /\ Cur \notin dead)
             /\ Issued(WriteTarget, 1, returncode, "write")
             /\ writes' = [writes EXCEPT ![WriteTarget] = @ + 1]
             /\ IF o = "ok"
                THEN /\ space' = [space EXCEPT ![WriteTarget] =
                            Sparse([x \in DOMAIN @ \cup {reg} |->
                                      IF x = reg THEN new ELSE @[x]])]
                     /\ stored' = [stored EXCEPT ![WriteTarget] = kept]
                ELSE /\ kept
                     /\ UNCHANGED <<space, stored>>
             /\ IF WriteFailed(returncode)
                THEN Return(FALSE, Error("write failed"))
                ELSE Goto("en_verify")
    /\ UNCHANGED <<ASPM_SETTING, lspci, dead, devices, run, status,
                   aspm_byte_address, aspm_byte_hex, desired_aspm_byte_hex,
                   prev_outcome, verified, space0>>
    /\ UNCHANGED drifted
    /\ UNCHANGED locVars

\* enable_aspm_byte, lines 259-282: read back after the delay and compare the
\* text read with the text of the desired value
EnableVerify ==
    /\ pc = "en_verify"
    /\ \E o \in OutcomesFor(Cur, {"fail", "malformed"}) :
         LET r == SetpciRead(space[Cur], aspm_byte_address, o)
             actual_aspm_byte_hex == Upper(r.out)
         IN  /\ Hit(Cur, o /= "ok" /\ Cur \notin dead)
             /\ Issued(Cur, 1,
                       IF r.rc /= 0 \/ ~VerifyOk(actual_aspm_byte_hex,
                                                 desired_aspm_byte_hex)
                       THEN 1 ELSE 0,
                       IF r.rc /= 0 THEN "verify" ELSE "mismatch")
             /\ IF r.rc /= 0
                THEN /\ Return(FALSE, Error("verify read failed"))
                     /\ UNCHANGED verified
                ELSE /\ verified' = [verified EXCEPT ![Cur] =
                            [desired |-> desired_aspm_byte_hex,
                             actual |-> actual_aspm_byte_hex]]
                     /\ IF VerifyOk(actual_aspm_byte_hex, desired_aspm_byte_hex)
                        THEN Return(TRUE, NoError)
                        ELSE Return(FALSE, [kind |-> "verification failed",
                                            expected |-> desired_aspm_byte_hex,
                                            actual |-> actual_aspm_byte_hex])
    /\ UNCHANGED <<ASPM_SETTING, space, lspci, dead, devices, run, status,
                   aspm_byte_address, aspm_byte_hex, desired_aspm_byte_hex,
                   writes, stored, prev_outcome, space0>>
    /\ UNCHANGED drifted
    /\ UNCHANGED locVars

\* environment: a device the run has still to deal with stops being listed
\* by lspci (one already counted is not looked at again)
Remove ==
    /\ pc \in {"check"} \cup InEnable
    /\ Budget
    /\ \E d \in lspci \cap {devices[i] : i \in idx .. Len(devices)} :
         /\ lspci' = lspci \ {d}
         /\ touched' = touched \cup {d}
    /\ events' = events + 1
    /\ UNCHANGED <<ASPM_SETTING, space, dead, devices, idx, pc, run, status,
                   aspm_byte_address, aspm_byte_hex, desired_aspm_byte_hex,
                   devices_with_aspm, devices_already_set, devices_updated,
                   devices_failed, devices_no_aspm, outcome, error_msg, writes,
                   stored, prev_outcome, verified, space0>>
    /\ UNCHANGED <<drifted, accessed, failed, after_fail, trail>>
    /\ UNCHANGED locVars

\* environment: the register of the device being enabled changes under the
\* program (firmware, a driver, another tool)
Drift ==
    /\ pc \in InEnable
    /\ Budget
    /\ LET reg == ParseHex(status.addr)
       IN  \E v \in DriftVals \ {ConfigByte(space[Cur], reg)} :
             space' = [space EXCEPT ![Cur] =
                         Sparse([x \in DOMAIN @ \cup {reg} |->
                                   IF x = reg THEN v ELSE @[x]])]
    /\ events' = events + 1
    /\ touched' = touched \cup {Cur}
    /\ UNCHANGED <<ASPM_SETTING, lspci, dead, devices, idx, pc, run, status,
                   aspm_byte_address, aspm_byte_hex, desired_aspm_byte_hex,
                   devices_with_aspm, devices_already_set, devices_updated,
                   devices_failed, devices_no_aspm, outcome, error_msg, writes,
                   stored, prev_outcome, verified, space0>>
    /\ drifted' = drifted \cup {Cur}
    /\ UNCHANGED <<accessed, failed, after_fail, trail>>
    /\ UNCHANGED locVars

NoOutcome == [d \in Dev |-> "none"]

\* the operator runs the script again after it printed its summary
Rerun ==
    /\ pc = "summary"
    /\ run < MaxRuns
    /\ run' = run + 1
    /\ pc' = "start"
    /\ prev_outcome' = outcome
    /\ verified' = [d \in Dev |-> NotVerified]
    /\ outcome' = NoOutcome
    /\ error_msg' = [d \in Dev |-> NoError]
    /\ writes' = [d \in Dev |-> 0]
    /\ stored' = [d \in Dev |-> TRUE]
    /\ touched' = {}
    /\ devices' = <<>>
    /\ idx' = 1
    /\ status' = NoStatus
    /\ aspm_byte_address' = None
    /\ aspm_byte_hex' = NoText
    /\ desired_aspm_byte_hex' = NoText
    /\ devices_with_aspm' = 0
    /\ devices_already_set' = 0
    /\ devices_updated' = 0
    /\ devices_failed' = 0
    /\ devices_no_aspm' = 0
    /\ UNCHANGED <<ASPM_SETTING, space, lspci, dead, space0, events>>
    /\ accessed' = {}
    /\ failed' = [d \in Dev |-> "none"]
    /\ after_fail' = [d \in Dev |-> 0]
    /\ trail' = <<>>
    /\ UNCHANGED drifted
    /\ UNCHANGED locVars

----------------------------------------------------------------------------
(* Specifications.                                                         *)

\* a fresh process: nothing counted, nothing issued
Fresh ==
    /\ idx = 1
    /\ run = 1
    /\ status = NoStatus
    /\ aspm_byte_address = None
    /\ aspm_byte_hex = NoText
    /\ desired_aspm_byte_hex = NoText
    /\ devices_with_aspm = 0
    /\ devices_already_set = 0
    /\ devices_updated = 0
    /\ devices_failed = 0
    /\ devices_no_aspm = 0
    /\ outcome = NoOutcome
    /\ error_msg = [d \in Dev |-> NoError]
    /\ writes = [d \in Dev |-> 0]
    /\ stored = [d \in Dev |-> TRUE]
    /\ prev_outcome = NoOutcome
    /\ verified = [d \in Dev |-> NotVerified]
    /\ events = 0
    /\ touched = {}
    /\ drifted = {}
    /\ accessed = {}
    /\ failed = [d \in Dev |-> "none"]
    /\ after_fail = [d \in Dev |-> 0]
    /\ trail = <<>>

\* main is about to enumerate the devices
ProgramInit ==
    /\ devices = <<>>
    /\ pc = "start"
    /\ Fresh

LocatorIdle ==
    /\ lspace = NoCapSpace
    /\ lplan = NoFault
    /\ lres = Pending

\* the batch over up to MaxDevices devices
Init ==
    /\ ProgramInit
    /\ LocatorIdle
    /\ ASPM_SETTING \in BatchPolicies
    /\ \E n \in 0 .. MaxDevices :
         /\ lspci = 1 .. n
         /\ dead \in SUBSET (1 .. n)
         /\ space \in [1 .. n -> BatchSpaces]
         /\ \A d \in dead : space[d] = PcieSpace(64)
    /\ space0 = space

Next ==
    \/ Enumerate
    \/ CheckDevice
    \/ EnablePresent
    \/ EnableFind
    \/ EnableRead
    \/ EnablePresent2
    \/ EnableWrite
    \/ EnableVerify
    \/ Remove
    \/ Drift
    \/ Rerun

Spec == Init /\ [][Next]_vars

\* one device, every register value and every policy
InitOne ==
    /\ ProgramInit
    /\ LocatorIdle
    /\ ASPM_SETTING \in Policies
    /\ lspci = {1}
    /\ dead = {}
    /\ space \in [{1} -> OneSpaces]
    /\ space0 = space

SpecOne == InitOne /\ [][Next]_vars

\* enable_aspm_byte called on its own for one device, as a caller of the
\* module may: every register value and every policy, whatever the register
\* holds; its return is what Return records for the device
InitEnable ==
    /\ Fresh
    /\ LocatorIdle
    /\ devices = <<1>>
    /\ pc = "en_present"
    /\ ASPM_SETTING \in Policies
    /\ lspci = {1}
    /\ dead = {}
    /\ space \in [{1} -> {PcieSpace(r) : r \in 0 .. 255}]
    /\ space0 = space

NextEnable ==
    \/ EnablePresent
    \/ EnableFind
    \/ EnableRead
    \/ EnablePresent2
    \/ EnableWrite
    \/ EnableVerify

SpecEnable == InitEnable /\ [][NextEnable]_vars

\* the locator alone, over the configuration spaces and the fault plans
InitLocator ==
    /\ ProgramInit
    /\ ASPM_SETTING = 3
    /\ lspci = {}
    /\ dead = {}
    /\ space = <<>>
    /\ space0 = <<>>
    /\ lspace \in LocatorSpaces
    /\ lplan \in FaultPlans
    /\ lres = Pending

NextLocator == Locate

SpecLocator == InitLocator /\ [][NextLocator]_vars

----------------------------------------------------------------------------
(* The capability-list walk of the PCI specification, the reference the    *)
(* claims about the locator compare find_aspm_byte_address with: the head  *)
(* pointer at 0x34, the ID at the node offset, the next pointer at the     *)
(* node offset + 1, a pointer of 0 ends the list, at most MAX_SEARCH nodes *)
(* are examined.                                                           *)

StdNoCapability == 0 - 1
StdMalformed == 0 - 2

StdAt(off, hops) == [off |-> off, hops |-> hops, done |-> FALSE, res |-> 0]
StdEnd(res) == [off |-> 0, hops |-> 0, done |-> TRUE, res |-> res]

StdStep(cs, st) ==
    IF st.done THEN st
    ELSE IF st.off = 0 THEN StdEnd(StdNoCapability)
    ELSE IF st.hops >= MAX_SEARCH THEN StdEnd(StdMalformed)
    ELSE IF ConfigByte(cs, st.off) = PcieCapId THEN StdEnd(st.off + LinkCtlDelta)
    ELSE StdAt(ConfigByte(cs, st.off + 1), st.hops + 1)

RECURSIVE StdIterate(_, _, _)
StdIterate(cs, st, k) ==
    IF st.done \/ k = 0 THEN st
    ELSE IF k = 1 THEN StdStep(cs, st)
    ELSE LET mid == StdIterate(cs, st, k \div 2)
         IN  StdIterate(cs, mid, k - (k \div 2))

\* the register address, StdNoCapability or StdMalformed
StdWalk(cs) == StdIterate(cs, StdAt(ConfigByte(cs, CapPtrReg), 0), MAX_SEARCH + 2).res

Located == lres /= Pending

----------------------------------------------------------------------------
(* Claims.                                                                 *)

\* C1: whenever the standard walk of a configuration space reaches a node
\* with ID 0x10 within the hop bound and no read fails,
\* find_aspm_byte_address returns the text of that node's offset + 0x10.
C1_LocatorFindsStandardNode ==
    (Located /\ lplan = NoFault /\ StdWalk(lspace) >= 0)
        => lres.ret = FormatX(StdWalk(lspace))

\* C2: the desired value check_aspm_status and enable_aspm_byte compute is
\* (v & 0b11111000) | p, and its bits 3-7 are those of the value read v,
\* for every v in 0..255 and every policy p in 0..3.
C2_DesiredValue ==
    /\ status.kind = "Status" =>
         /\ status.desired_val = BitOr(BitAnd(status.current_val, 248), ASPM_SETTING)
         /\ status.desired_val \div 8 = status.current_val \div 8
    /\ pc \in {"en_present2", "en_write", "en_verify"} =>
         /\ ParseHex(desired_aspm_byte_hex)
                = BitOr(BitAnd(ParseHex(aspm_byte_hex), 248), ASPM_SETTING)
         /\ ParseHex(desired_aspm_byte_hex) \div 8 = ParseHex(aspm_byte_hex) \div 8

C2_Witness ==
    /\ pc = "en_present2"
    /\ status.kind = "Status"
    /\ status.current_val = 196
    /\ ASPM_SETTING = 2
    /\ aspm_byte_hex = <<"C", "4">>

\* C3: a device whose capability is found, whose register differs from the
\* desired value, whose write succeeds and whose register reads back as the
\* desired value is counted as Updated.
C3_UpdatedWhenReadbackMatches ==
    (/\ pc = "summary"
     /\ events = 0
     /\ status.kind = "Status"
     /\ status.current_val /= status.desired_val
     /\ writes[1] = 1
     /\ verified[1] /= NotVerified
     /\ IsHex(verified[1].actual)
     /\ ParseHex(verified[1].actual) = status.desired_val)
        => outcome[1] = "Updated"

\* the value the verification read returned for d is the value desired
ReadbackMatches(d) ==
    /\ IsHex(verified[d].actual)
    /\ ParseHex(verified[d].actual) = ParseHex(verified[d].desired)

\* C4: when the write succeeded and the readback differs from the desired
\* value, the device is counted as Failed with a verification mismatch that
\* carries the expected and the actual text, it is not counted as Updated,
\* and the run issued exactly one write to it.
C4_MismatchFails ==
    \A d \in Dev :
        (outcome[d] /= "none" /\ verified[d] /= NotVerified /\ ~ReadbackMatches(d))
            => /\ outcome[d] = "Failed"
               /\ error_msg[d].kind = "verification failed"
               /\ error_msg[d].expected = verified[d].desired
               /\ error_msg[d].actual = verified[d].actual
               /\ writes[d] = 1

C4_Witness ==
    /\ pc = "summary"
    /\ space0[1] = PcieSpace(68)
    /\ ASPM_SETTING = 3
    /\ verified[1] = [desired |-> <<"4", "3">>, actual |-> <<"4", "7">>]
    /\ outcome[1] = "Failed"
    /\ devices_failed = 1
    /\ devices_updated = 0

\* C5: in a run that follows another with the same policy, every device
\* whose register nothing but the program has changed (d \notin drifted),
\* that the earlier run counted as Updated or AlreadyCorrect and that is
\* still listed, is counted as AlreadyCorrect, and no write is issued to it.
C5_SecondRunAlreadyCorrect ==
    \A d \in Dev :
        (run > 1 /\ d \notin drifted /\ prev_outcome[d] \in {"Updated", "AlreadyCorrect"})
            => /\ outcome[d] \in {"none", "AlreadyCorrect"}
               /\ writes[d] = 0
               /\ (pc = "summary" /\ d \in lspci => outcome[d] = "AlreadyCorrect")

C5_Witness ==
    /\ run = 2
    /\ pc = "summary"
    /\ 1 \notin drifted
    /\ prev_outcome[1] = "Updated"
    /\ outcome[1] = "AlreadyCorrect"
    /\ writes[1] = 0
    /\ devices_already_set = 1

\* C6: a capability list of 101 nodes without the PCI Express ID makes the
\* locator report something other than its "no capability" answer, and main
\* does not count the device as having no PCI Express capability.
C6_LongListIsNotNoCapability ==
    (pc = "summary" /\ run = 1 /\ events = 0 /\ space0[1] = ChainSpace(101, 0))
        => (status.kind /= "None" /\ outcome[1] /= "NoCapability")

\* C7: when the head pointer is 0, or a next pointer of 0 is read before any
\* node with ID 0x10, the locator returns None.
C7_ZeroPointerEndsWalk ==
    (Located /\ lplan = NoFault /\ StdWalk(lspace) = StdNoCapability)
        => lres.ret = None

\* the outcomes a device with configuration space cs can reach when it is
\* processed alone and nothing fails (the device may or may not store a write)
SoloOutcomes(cs, setting) ==
    LET st == check_aspm_status(cs, TRUE, NoFault, setting)
    IN  IF st.kind /= "Status" THEN {"NoCapability"}
        ELSE IF st.current_val = st.desired_val THEN {"AlreadyCorrect"}
        ELSE {"Updated", "Failed"}

\* C8: with three devices of which the second fails every configuration-space
\* access, the first and the third reach the outcomes they reach alone, and
\* the summary counts exactly one Failed device (the second).
C8_DeadDeviceCountsAsFailed ==
    (/\ pc = "summary"
     /\ run = 1
     /\ events = 0
     /\ Len(devices) = 3
     /\ dead = {2}
     /\ outcome[1] /= "Failed"
     /\ outcome[3] /= "Failed")
        => /\ outcome[1] \in SoloOutcomes(space0[1], ASPM_SETTING)
           /\ outcome[3] \in SoloOutcomes(space0[3], ASPM_SETTING)
           /\ outcome[2] = "Failed"
           /\ devices_failed = 1

\* C9: no failure that concerns one device ends the run before the summary:
\* the program exits early only when the enumeration found no device.
C9_NoDeviceFailureAborts ==
    /\ pc /= "crash"
    /\ pc = "exit1" => devices = <<>>

\* C10: for the value read 0xC4 and policy 3 the desired value is 0xC7.
C10_ExampleC7 ==
    (status.kind = "Status" /\ status.current_val = 196 /\ ASPM_SETTING = 3)
        => status.desired_val = 199

\* C10, amended: for the value read 0xC4 and policy 3 the desired value is
\* 0xC3 (the low three bits are cleared before the policy is or-ed in).
C10_ExampleC3 ==
    (status.kind = "Status" /\ status.current_val = 196 /\ ASPM_SETTING = 3)
        => status.desired_val = 195

C10_Witness ==
    /\ status.kind = "Status"
    /\ status.current_val = 196
    /\ ASPM_SETTING = 3
    /\ status.desired_val = 195
    /\ pc = "en_present"

\* C11: a write command the program issues to a device leaves bits 3-7 of
\* every byte of its configuration space, the ASPM register included, as
\* they were before the write, for every register value and every policy.
C11_WritePreservesHighBits ==
    [][\A d \in DOMAIN space :
          writes'[d] = writes[d] + 1 =>
              \A off \in 0 .. 255 :
                  ConfigByte(space'[d], off) \div 8 = ConfigByte(space[d], off) \div 8]_vars

C11_Witness ==
    /\ pc = "en_verify"
    /\ ASPM_SETTING = 3
    /\ space0[1] = PcieSpace(200)
    /\ writes[1] = 1
    /\ stored[1]
    /\ ConfigByte(space[1], 80) = 203

\* C12: when the locator found the capability inside check_aspm_status and
\* the read of the register then failed, the device is counted as Failed and
\* not as a device without the capability.
C12_RegisterReadFailureIsFailed ==
    (pc = "summary" /\ run = 1 /\ status.kind = "None" /\ status.found /= None)
        => /\ outcome[1] = "Failed"
           /\ devices_failed = 1
           /\ devices_no_aspm = 0

\* C13: when a read of the walk fails, find_aspm_byte_address issues no
\* further command and its answer differs from None, the answer it gives
\* for a device without the PCI Express capability.
C13_ReadFailureStopsAndIsReported ==
    (Located /\ lplan.kind = "fail" /\ lplan.at <= lres.reads)
        => /\ lres.reads = lplan.at
           /\ lres.ret /= None

\* C14: a device for which check_aspm_status returned a current value equal
\* to the desired value is counted as AlreadyCorrect without entering
\* enable_aspm_byte, no write is issued to it, and the counter of devices
\* already set is the number of such devices.
C14_AlreadyCorrectNoWrite ==
    /\ (pc \in InEnable /\ status.kind = "Status")
           => status.current_val /= status.desired_val
    /\ (pc \in {"check", "summary"} /\ idx > 1 /\ status.kind = "Status"
        /\ status.current_val = status.desired_val)
           => /\ outcome[devices[idx - 1]] = "AlreadyCorrect"
              /\ writes[devices[idx - 1]] = 0
    /\ devices_already_set = Cardinality({d \in Dev : outcome[d] = "AlreadyCorrect"})

C14_Witness ==
    /\ pc = "summary"
    /\ Len(devices) = 3
    /\ space0[2] = PcieSpace(67)
    /\ outcome[1] = "Updated"
    /\ outcome[2] = "AlreadyCorrect"
    /\ writes[2] = 0
    /\ devices_already_set = 1

\* C15: a device whose write command failed is counted as Failed with the
\* write error, no command (so no verification read) is issued to it after
\* the write, and the Failed counter counts each Failed device once.
C15_WriteFailureIsFailed ==
    \A d \in Dev :
        failed[d] = "write"
            => /\ outcome[d] = "Failed"
               /\ error_msg[d].kind = "write failed"
               /\ verified[d] = NotVerified
               /\ after_fail[d] = 0
               /\ devices_failed = Cardinality({e \in Dev : outcome[e] = "Failed"})

C15_Witness ==
    /\ pc = "summary"
    /\ failed[1] = "write"
    /\ writes[1] = 1
    /\ outcome[1] = "Failed"
    /\ devices_failed = 1

\* C16: in one run at most one write command is issued to a device, and
\* after a command of a device failed (a read, the write, or the readback
\* that differs) no further command is issued to that device.
C16_NoRetry ==
    \A d \in Dev :
        /\ writes[d] <= 1
        /\ after_fail[d] = 0

C16_Witness ==
    /\ pc = "summary"
    /\ Len(devices) = 2
    /\ failed[1] = "mismatch"
    /\ writes[1] = 1
    /\ failed[2] = "read"
    /\ writes[2] = 0

\* C17: a step of check_aspm_status or of find_aspm_byte_address changes no
\* configuration space and issues no write command, for every configuration
\* space and every outcome of the accesses.
C17_LocatorIssuesNoWrite ==
    [][(pc \in {"check", "en_find"} /\ (pc' /= pc \/ idx' /= idx))
          => (space' = space /\ writes' = writes)]_vars

C17_Witness ==
    /\ pc = "en_read"
    /\ 1 \in accessed
    /\ status.kind = "Status"
    /\ aspm_byte_address = <<"5", "0">>
    /\ writes[1] = 0
    /\ space = space0

\* C18: while a device stays counted as Updated in a run, no step of the run
\* issues a write command to it or changes its configuration space, whatever
\* happens to the devices processed after it.
C18_NoRollback ==
    [][\A d \in DOMAIN space :
          (outcome[d] = "Updated" /\ outcome'[d] = "Updated")
              => (writes'[d] = writes[d] /\ space'[d] = space[d])]_vars

C18_Witness ==
    /\ pc = "summary"
    /\ space0[1] = PcieSpace(64)
    /\ outcome[1] = "Updated"
    /\ ConfigByte(space[1], 80) = 67
    /\ outcome[2] = "Failed"

\* the while loop of find_aspm_byte_address after MAX_SEARCH + 1 tests of
\* its condition
WalkState(cs, plan) ==
    LET first == SetpciRead(cs, Str34, AccessOutcome(plan, 1))
    IN  IF first.rc /= 0 THEN Returned(None, 1, FALSE)
        ELSE Iterate(cs, plan, Looping(first.out, 1, 1), MAX_SEARCH + 1)

\* the capability IDs a walk that issued `reads` commands has read
NodesExamined(reads) == reads \div 2

\* C19: for every configuration space, cyclic lists included, the walk has
\* returned once its loop condition was tested MAX_SEARCH + 1 times, and it
\* has examined at most MAX_SEARCH nodes.
C19_WalkTerminates ==
    Located => /\ WalkState(lspace, lplan).done
               /\ NodesExamined(lres.reads) <= MAX_SEARCH

C19_Witness ==
    /\ Located
    /\ lplan = NoFault
    /\ ConfigByte(lspace, CapPtrReg) = 64
    /\ ConfigByte(lspace, 64) = 1
    /\ ConfigByte(lspace, 65) = 64
    /\ NodesExamined(lres.reads) = MAX_SEARCH
    /\ lres.long

\* C20: when the enumeration yields no device the program exits at once: no
\* setpci command is issued, no device gets an outcome, every counter is 0
\* and no configuration space has changed.
C20_NoDevicesEmptyResult ==
    (devices = <<>> /\ pc /= "start")
        => /\ pc = "exit1"
           /\ accessed = {}
           /\ outcome = NoOutcome
           /\ \A d \in Dev : writes[d] = 0
           /\ devices_with_aspm = 0 /\ devices_no_aspm = 0
           /\ devices_already_set = 0 /\ devices_updated = 0 /\ devices_failed = 0
           /\ space = space0

C20_Witness ==
    /\ pc = "exit1"
    /\ devices = <<>>
    /\ lspci = {}
    /\ accessed = {}
    /\ outcome = NoOutcome

\* the position of device d in the enumerated list
Position(d) == CHOOSE k \in DOMAIN devices : devices[k] = d

\* C21: the commands of a run go to the devices one device after the other,
\* in the order of the enumerated list: no command goes to a device after a
\* command went to a later one, and none goes to a device the loop has not
\* reached.
C21_SequentialInOrder ==
    /\ \A i \in DOMAIN trail :
         \E k \in DOMAIN devices : k <= idx /\ devices[k] = trail[i]
    /\ \A i, j \in DOMAIN trail :
         i < j => Position(trail[i]) < Position(trail[j])

C21_Witness ==
    /\ pc = "summary"
    /\ trail = <<1, 2, 3>>
    /\ writes[1] = 1
    /\ writes[3] = 1

\* C22: after a write that succeeded on a device that stores what is written,
\* the register holds (current & 0b11111000) | policy, for every value read
\* as current, those with bit 2 set included.
C22_WriteStoresDesired ==
    (pc = "en_verify" /\ stored[1] /\ failed[1] = "none" /\ 1 \notin drifted)
        => ConfigByte(space[1], ParseHex(aspm_byte_address))
               = BitOr(BitAnd(ParseHex(aspm_byte_hex), 248), ASPM_SETTING)

\* C23: enable_aspm_byte called on a device whose register already holds the
\* desired value (its low three bits are the policy) issues no write and
\* returns success, for every such register value in 0..255.
C23_AlreadySetReturnsSuccess ==
    (pc = "summary" /\ events = 0
     /\ ConfigByte(space0[1], 80) % 8 = ASPM_SETTING)
        => /\ writes[1] = 0
           /\ outcome[1] = "Updated"

\* C24: every register address find_aspm_byte_address returns is a value in
\* 0..255.
C24_AddressIsByte ==
    (Located /\ lres.ret /= None) => ParseHex(lres.ret) <= 255

\* C25: whenever the loop stands between two devices or at the summary, the
\* devices without and with ASPM support add up to the devices processed,
\* and the devices already set, updated and failed add up to those with
\* support; at the summary the four outcome counts add up to the number of
\* enumerated devices.
C25_CountersConsistent ==
    pc \in {"check", "summary"}
        => /\ devices_no_aspm + devices_with_aspm = idx - 1
           /\ devices_already_set + devices_updated + devices_failed
                  = devices_with_aspm
           /\ pc = "summary" =>
                  devices_no_aspm + devices_already_set + devices_updated
                      + devices_failed = Len(devices)

C25_Witness ==
    /\ pc = "summary"
    /\ Len(devices) = 3
    /\ devices_no_aspm = 1
    /\ devices_already_set = 1
    /\ devices_failed = 1
    /\ devices_with_aspm = 2

\* C26: a device counted as Updated was written exactly once in the run and
\* its readback after the write matched the desired value, also when its
\* register changed between check_aspm_status and the read of
\* enable_aspm_byte.
C26_UpdatedMeansWrittenAndVerified ==
    \A d \in Dev :
        outcome[d] = "Updated"
            => /\ writes[d] = 1
               /\ verified[d] /= NotVerified
               /\ ReadbackMatches(d)

====
